---------------------------- MODULE Spec2Model ----------------------------
(***************************************************************************)
(* UR5Visualizer (src/visualize.py): the run store, the playback state     *)
(* and the polling loop of run().                                          *)
(*                                                                         *)
(* Times are in milliseconds (0.01 s is 10).  A numpy array is the         *)
(* sequence of its rows; Python index i is sequence index i + 1.  An       *)
(* attribute that may be None holds None (the empty tuple) or Some(a).     *)
(* A step interval dt / speed is kept as the pair of its operands.         *)
(***************************************************************************)
EXTENDS Integers, Sequences, FiniteSets

VARIABLES
    runs,           \* self.runs: insertion-ordered dict, a sequence of [name, run]
    options,        \* self.run_dropdown.options
    value,          \* self.run_dropdown.value
    is_playing,     \* self.is_playing
    trajectory,     \* self.trajectory (None or Some(array))
    torques,        \* self.torques
    errors,         \* self.errors
    times,          \* self.times
    current_idx,    \* self.current_idx
    dt,             \* self.dt
    speed,          \* self.speed
    plot_handles,   \* self.plot_handles: the figures now shown
    play_btn,       \* self.play_btn.name
    pc,             \* where run() is
    last,           \* the last callback: its name, arguments, directives, exception
    sched,          \* what the loop of run() did since the last callback
    call            \* the callback a loop step may interleave with (None between callbacks)

vars == <<runs, options, value, is_playing, trajectory, torques, errors, times,
          current_idx, dt, speed, plot_handles, play_btn, pc, last, sched, call>>

---------------------------------------------------------------------------
(* Bounds of the model. *)

MaxLen == 3

(* Program constants. *)

DefaultDt == 10

InitSpeed == 1

Names == {"A", "B"}

NoRuns == "<no runs available>"

---------------------------------------------------------------------------
(* Values. *)

None == << >>

Some(a) == << a >>

Arr(x) == x[1]

Range(q) == { q[i] : i \in 1..Len(q) }

Max(a, b) == IF a >= b THEN a ELSE b

Min(a, b) == IF a <= b THEN a ELSE b

(* The recorded run of n samples: four parallel arrays of n rows; the     *)
(* timestamps are n * 10 ms apart.                                         *)
MkRun(n) ==
    [traj    |-> [i \in 1..n |-> <<"q", n, i - 1>>],
     torques |-> [i \in 1..n |-> <<"tau", n, i - 1>>],
     errors  |-> [i \in 1..n |-> <<"err", n, i - 1>>],
     times   |-> [i \in 1..n |-> (i - 1) * (n * 10)]]

(* The runs on offer: none, one or two samples, and the longest. *)
RunLens == {0, 1, 2, MaxLen}

RunData == { MkRun(n) : n \in RunLens }

SeekIdx == (0 - 1)..(MaxLen + 1)

SpeedInputs == {0, 1, 2}

(* The insertion-ordered dict self.runs. *)
Keys(d) == [i \in 1..Len(d) |-> d[i].name]

Has(d, name) == \E i \in 1..Len(d) : d[i].name = name

Get(d, name) == (CHOOSE e \in {d[i] : i \in 1..Len(d)} : e.name = name).run

Put(d, name, run) ==
    IF Has(d, name)
    THEN [i \in 1..Len(d) |-> IF d[i].name = name THEN [name |-> name, run |-> run] ELSE d[i]]
    ELSE Append(d, [name |-> name, run |-> run])

(* Directives to the collaborators. *)
Pose(cfg) == [d |-> "pose", cfg |-> cfg]

Figure(title, name, x, y) == [d |-> "plot", title |-> title, name |-> name, x |-> x, y |-> y]

---------------------------------------------------------------------------
(* The object: its attributes, with the directives sent and the exception *)
(* raised by the call in progress.                                         *)

Self ==
    [runs |-> runs, options |-> options, value |-> value, is_playing |-> is_playing,
     trajectory |-> trajectory, torques |-> torques, errors |-> errors, times |-> times,
     current_idx |-> current_idx, dt |-> dt, speed |-> speed,
     plot_handles |-> plot_handles, play_btn |-> play_btn,
     out |-> << >>, exc |-> "none"]

(* self.robot.update_cfg(a[i]): IndexError when i is out of range. *)
update_cfg(self, a, i) ==
    IF 0 <= i /\ i < Len(a)
    THEN [self EXCEPT !.out = Append(@, Pose(a[i + 1]))]
    ELSE [self EXCEPT !.exc = "IndexError"]

update_plots(self, name) ==
    LET cleared == [self EXCEPT !.plot_handles = << >>] IN
    IF self.trajectory = None
    THEN cleared
    ELSE LET figs == << Figure("Joint Angles", name, Arr(self.times), Arr(self.trajectory)),
                        Figure("Joint Torques", name, Arr(self.times), Arr(self.torques)),
                        Figure("Tracking Errors", name, Arr(self.times), Arr(self.errors)) >>
         IN [cleared EXCEPT !.plot_handles = figs, !.out = @ \o figs]

(* switch_run without the cursor reset of line 72. *)
switch_run_KeepCursor(self, name) ==
    IF ~Has(self.runs, name)
    THEN self
    ELSE LET r  == Get(self.runs, name)
             s1 == [self EXCEPT !.trajectory = Some(r.traj), !.torques = Some(r.torques),
                                !.errors = Some(r.errors), !.times = Some(r.times)]
             s2 == [s1 EXCEPT !.dt = IF Len(r.times) > 1
                                       THEN r.times[2] - r.times[1]
                                       ELSE DefaultDt]
             s4 == update_cfg(s2, r.traj, 0)
         IN IF s4.exc # "none" THEN s4 ELSE update_plots(s4, name)

(* switch_run without the membership test of lines 67-68: the lookup of  *)
(* line 69 raises KeyError for an absent name.                             *)
switch_run_NoLookup(self, name) ==
    IF ~Has(self.runs, name)
    THEN [self EXCEPT !.exc = "KeyError"]
    ELSE LET r  == Get(self.runs, name)
             s1 == [self EXCEPT !.trajectory = Some(r.traj), !.torques = Some(r.torques),
                                !.errors = Some(r.errors), !.times = Some(r.times)]
             s2 == [s1 EXCEPT !.dt = IF Len(r.times) > 1
                                       THEN r.times[2] - r.times[1]
                                       ELSE DefaultDt]
             s3 == [s2 EXCEPT !.current_idx = 0]
             s4 == update_cfg(s3, r.traj, 0)
         IN IF s4.exc # "none" THEN s4 ELSE update_plots(s4, name)

switch_run(self, name) ==
    IF ~Has(self.runs, name)
    THEN self
    ELSE LET r  == Get(self.runs, name)
             s1 == [self EXCEPT !.trajectory = Some(r.traj), !.torques = Some(r.torques),
                                !.errors = Some(r.errors), !.times = Some(r.times)]
             s2 == [s1 EXCEPT !.dt = IF Len(r.times) > 1
                                       THEN r.times[2] - r.times[1]
                                       ELSE DefaultDt]
             s3 == [s2 EXCEPT !.current_idx = 0]
             s4 == update_cfg(s3, r.traj, 0)
         IN IF s4.exc # "none" THEN s4 ELSE update_plots(s4, name)

add_run(self, name, run) ==
    LET s1 == [self EXCEPT !.runs = Put(@, name, run)]
        s2 == [s1 EXCEPT !.options = Keys(s1.runs)]
    IN IF Len(s2.runs) = 1
       THEN switch_run([s2 EXCEPT !.value = name], name)
       ELSE s2

(* seek without the is_playing guard of line 77. *)
seek_Unguarded(self, idx) ==
    IF self.trajectory # None
    THEN LET i  == Max(0, Min(idx, Len(Arr(self.trajectory)) - 1))
             s1 == [self EXCEPT !.current_idx = i]
         IN update_cfg(s1, Arr(self.trajectory), i)
    ELSE self

seek(self, idx) ==
    IF self.trajectory # None /\ ~self.is_playing
    THEN LET i  == Max(0, Min(idx, Len(Arr(self.trajectory)) - 1))
             s1 == [self EXCEPT !.current_idx = i]
         IN update_cfg(s1, Arr(self.trajectory), i)
    ELSE self

toggle(self) ==
    LET s1 == [self EXCEPT !.is_playing = ~@]
    IN [s1 EXCEPT !.play_btn = IF s1.is_playing THEN "Pause" ELSE "Play"]

restart(self) ==
    LET s1 == [self EXCEPT !.current_idx = 0]
    IN IF s1.trajectory # None
       THEN update_cfg(s1, Arr(s1.trajectory), 0)
       ELSE s1

(* The run selector's callback: the widget takes the chosen option as its *)
(* value, then calls switch_run with it.                                   *)
on_update(self, name) == switch_run([self EXCEPT !.value = name], name)

(* The speed assignment of the specification: s > 0 is stored, any other  *)
(* value is rejected.                                                      *)
(* switch_run up to and including line 70: the four arrays are assigned, *)
(* dt and the cursor are still those of the run before.                    *)
switch_run_assign(self, r) ==
    [self EXCEPT !.trajectory = Some(r.traj), !.torques = Some(r.torques),
                 !.errors = Some(r.errors), !.times = Some(r.times)]

(* switch_run from line 71 on; traj and times are the locals of line 69.  *)
switch_run_reset(self, name, r) ==
    LET s2 == [self EXCEPT !.dt = IF Len(r.times) > 1
                                   THEN r.times[2] - r.times[1]
                                   ELSE DefaultDt]
        s3 == [s2 EXCEPT !.current_idx = 0]
        s4 == update_cfg(s3, r.traj, 0)
    IN IF s4.exc # "none" THEN s4 ELSE update_plots(s4, name)

(* toggle, line 83, and line 84, which reads is_playing again. *)
toggle_flip(self) == [self EXCEPT !.is_playing = ~@]

toggle_label(self) == [self EXCEPT !.play_btn = IF self.is_playing THEN "Pause" ELSE "Play"]

(* A speed assignment that stores any value. *)
setSpeed_Unchecked(self, s) == [self EXCEPT !.speed = s]

setSpeed(self, s) == IF s > 0 THEN [self EXCEPT !.speed = s] ELSE self

---------------------------------------------------------------------------
(* A callback runs to its end, on the object as the loop left it.  It is  *)
(* remembered by its name, the directives it sent and what it raised.     *)

Op(op, s) == [op |-> op, out |-> s.out, exc |-> s.exc]

Write(s, op) ==
    /\ runs' = s.runs
    /\ options' = s.options
    /\ value' = s.value
    /\ is_playing' = s.is_playing
    /\ trajectory' = s.trajectory
    /\ torques' = s.torques
    /\ errors' = s.errors
    /\ times' = s.times
    /\ current_idx' = s.current_idx
    /\ dt' = s.dt
    /\ speed' = s.speed
    /\ plot_handles' = s.plot_handles
    /\ play_btn' = s.play_btn
    /\ last' = Op(op, s)
    /\ sched' = << >>

(* A callback that runs from its first line to its last with the loop of  *)
(* run() standing still.                                                   *)
Commit(s, op) == Write(s, op) /\ UNCHANGED <<pc, call>>

(* Callbacks are delivered before run() is called and while its loop      *)
(* sleeps between two passes.                                              *)
Delivered == pc \in {"init", "poll"}

AddRun(name, run) == Delivered /\ Commit(add_run(Self, name, run), "add_run")

(* The operator picks one of the selector's options. *)
SelectRun(name) == Delivered /\ Commit(on_update(Self, name), "switch_run")

(* switch_run called with a name the store does not hold. *)
SwitchRun(name) == Delivered /\ ~Has(runs, name) /\ Commit(switch_run(Self, name), "switch_run")

Seek(idx) == Delivered /\ Commit(seek(Self, idx), "seek")

Toggle == Delivered /\ Commit(toggle(Self), "toggle")

Restart == Delivered /\ Commit(restart(Self), "restart")

SetSpeed(s) == Delivered /\ Commit(setSpeed(Self, s), "setSpeed")

---------------------------------------------------------------------------
(* run(): one action per statement of the loop.  At "poll" the loop is    *)
(* between two passes: in the sleep that ends a pass, or at its top.      *)

Wait == [e |-> "wait", dt |-> dt, speed |-> speed]

Emitted(cfg) == [e |-> "pose", cfg |-> cfg]

Incremented(i) == [e |-> "incr", idx |-> i]

Stopped == [e |-> "stop"]

RunStart ==
    /\ pc = "init"
    /\ pc' = "poll"
    /\ UNCHANGED <<call, runs, options, value, is_playing, trajectory, torques, errors, times,
                   current_idx, dt, speed, plot_handles, play_btn, last, sched>>

(* LoopCheck with <= for the < of line 198. *)
LoopCheck_PastEnd ==
    /\ pc = "poll"
    /\ pc' = IF is_playing /\ trajectory # None
             THEN IF current_idx <= Len(Arr(trajectory)) THEN "wait1" ELSE "stop"
             ELSE "poll"
    /\ UNCHANGED <<call, runs, options, value, is_playing, trajectory, torques, errors, times,
                   current_idx, dt, speed, plot_handles, play_btn, last, sched>>

(* LoopCheck stopping one sample before the end. *)
LoopCheck_StopsEarly ==
    /\ pc = "poll"
    /\ pc' = IF is_playing /\ trajectory # None
             THEN IF current_idx < Len(Arr(trajectory)) - 1 THEN "wait1" ELSE "stop"
             ELSE "poll"
    /\ UNCHANGED <<call, runs, options, value, is_playing, trajectory, torques, errors, times,
                   current_idx, dt, speed, plot_handles, play_btn, last, sched>>

LoopCheck ==
    /\ pc = "poll"
    /\ pc' = IF is_playing /\ trajectory # None
             THEN IF current_idx < Len(Arr(trajectory)) THEN "wait1" ELSE "stop"
             ELSE "poll"
    /\ UNCHANGED <<call, runs, options, value, is_playing, trajectory, torques, errors, times,
                   current_idx, dt, speed, plot_handles, play_btn, last, sched>>

(* The loop without the first sleep, of line 199. *)
Wait1_NoSleep ==
    /\ pc = "wait1"
    /\ pc' = "emit"
    /\ UNCHANGED <<call, runs, options, value, is_playing, trajectory, torques, errors, times,
                   current_idx, dt, speed, plot_handles, play_btn, last, sched>>

Wait1 ==
    /\ pc = "wait1"
    /\ sched' = Append(sched, Wait)
    /\ pc' = "emit"
    /\ UNCHANGED <<call, runs, options, value, is_playing, trajectory, torques, errors, times,
                   current_idx, dt, speed, plot_handles, play_btn, last>>

Emit ==
    /\ pc = "emit"
    /\ IF 0 <= current_idx /\ current_idx < Len(Arr(trajectory))
       THEN /\ sched' = Append(sched, Emitted(Arr(trajectory)[current_idx + 1]))
            /\ pc' = "incr"
       ELSE /\ sched' = sched
            /\ pc' = "crashed"
    /\ UNCHANGED <<call, runs, options, value, is_playing, trajectory, torques, errors, times,
                   current_idx, dt, speed, plot_handles, play_btn, last>>

Incr ==
    /\ pc = "incr"
    /\ current_idx' = current_idx + 1
    /\ sched' = Append(sched, Incremented(current_idx'))
    /\ pc' = "wait2"
    /\ UNCHANGED <<call, runs, options, value, is_playing, trajectory, torques, errors, times,
                   dt, speed, plot_handles, play_btn, last>>

(* The loop without the second sleep, of line 202. *)
Wait2_NoSleep ==
    /\ pc = "wait2"
    /\ pc' = "poll"
    /\ UNCHANGED <<call, runs, options, value, is_playing, trajectory, torques, errors, times,
                   current_idx, dt, speed, plot_handles, play_btn, last, sched>>

Wait2 ==
    /\ pc = "wait2"
    /\ sched' = Append(sched, Wait)
    /\ pc' = "poll"
    /\ UNCHANGED <<call, runs, options, value, is_playing, trajectory, torques, errors, times,
                   current_idx, dt, speed, plot_handles, play_btn, last>>

Stop ==
    /\ pc = "stop"
    /\ is_playing' = FALSE
    /\ sched' = Append(sched, Stopped)
    /\ pc' = "label"
    /\ UNCHANGED <<call, runs, options, value, trajectory, torques, errors, times,
                   current_idx, dt, speed, plot_handles, play_btn, last>>

Label ==
    /\ pc = "label"
    /\ play_btn' = "Play"
    /\ pc' = "poll"
    /\ UNCHANGED <<call, runs, options, value, is_playing, trajectory, torques, errors, times,
                   current_idx, dt, speed, plot_handles, last, sched>>

Loop == LoopCheck \/ Wait1 \/ Emit \/ Incr \/ Wait2 \/ Stop \/ Label

---------------------------------------------------------------------------

Init ==
    /\ runs = << >>
    /\ options = << NoRuns >>
    /\ value = NoRuns
    /\ is_playing = FALSE
    /\ trajectory = None
    /\ torques = None
    /\ errors = None
    /\ times = None
    /\ current_idx = 0
    /\ dt = DefaultDt
    /\ speed = InitSpeed
    /\ plot_handles = << >>
    /\ play_btn = "Play"
    /\ pc = "init"
    /\ last = [op |-> "init", out |-> << >>, exc |-> "none"]
    /\ sched = << >>
    /\ call = None

Callback ==
    \/ \E name \in Names, run \in RunData : AddRun(name, run)
    \/ \E name \in Range(options) : SelectRun(name)
    \/ \E name \in Names : SwitchRun(name)
    \/ \E idx \in SeekIdx : Seek(idx)
    \/ Toggle
    \/ Restart
    \/ \E s \in SpeedInputs : SetSpeed(s)

Next == Callback \/ RunStart \/ Loop

Spec == Init /\ [][Next]_vars

(* The loop of run() keeps running once started. *)
LiveSpec == Spec /\ WF_vars(Loop)

---------------------------------------------------------------------------
(* The callbacks run on the server's threads while run() loops on the     *)
(* main thread: a callback may start at any statement of the loop, and    *)
(* the loop may take steps between two statements of switch_run and of    *)
(* toggle.  One callback runs at a time.                                   *)
Interleaved == call = None /\ pc # "crashed"

AsyncAddRun(name, run) == Interleaved /\ Commit(add_run(Self, name, run), "add_run")

AsyncSeek(idx) == Interleaved /\ Commit(seek(Self, idx), "seek")

AsyncRestart == Interleaved /\ Commit(restart(Self), "restart")

(* The run selector's callback up to line 70. *)
SwitchAssign(name) ==
    /\ Interleaved
    /\ Has(runs, name)
    /\ Write(switch_run_assign([Self EXCEPT !.value = name], Get(runs, name)), "switch_run")
    /\ call' = Some([op |-> "switch_run", name |-> name, r |-> Get(runs, name)])
    /\ UNCHANGED pc

SwitchReset ==
    /\ call # None
    /\ Arr(call).op = "switch_run"
    /\ Write(switch_run_reset(Self, Arr(call).name, Arr(call).r), "switch_run")
    /\ call' = None
    /\ UNCHANGED pc

ToggleFlip ==
    /\ Interleaved
    /\ Write(toggle_flip(Self), "toggle")
    /\ call' = Some([op |-> "toggle"])
    /\ UNCHANGED pc

ToggleLabel ==
    /\ call # None
    /\ Arr(call).op = "toggle"
    /\ Write(toggle_label(Self), "toggle")
    /\ call' = None
    /\ UNCHANGED pc

AsyncCallback ==
    \/ \E name \in Names, run \in RunData : AsyncAddRun(name, run)
    \/ \E name \in Range(options) : SwitchAssign(name)
    \/ SwitchReset
    \/ \E idx \in SeekIdx : AsyncSeek(idx)
    \/ ToggleFlip
    \/ ToggleLabel
    \/ AsyncRestart

NextAsync == AsyncCallback \/ RunStart \/ Loop

SpecAsync == Init /\ [][NextAsync]_vars

---------------------------------------------------------------------------
(* What the claims speak of. *)

Active == trajectory # None

N == Len(Arr(trajectory))

(* The sample interval of a stored run, as the specification derives it. *)
IntervalOf(name) ==
    LET t == Get(runs, name).times
    IN IF Len(t) >= 2 THEN t[2] - t[1] ELSE DefaultDt

Clamp(k, n) == Max(0, Min(k, n - 1))

Playback == <<trajectory, torques, errors, times, current_idx, dt, is_playing>>

(* The loop's events of one kind since the last callback. *)
Events(kind) == SelectSeq(sched, LAMBDA ev : ev.e = kind)

Poses == [i \in 1..Len(Events("pose")) |-> Events("pose")[i].cfg]

HasStopped == Len(Events("stop")) > 0

---------------------------------------------------------------------------
(* C1: after switch_run(name) for a name the store holds, from any prior  *)
(* state, current_idx is 0, is_playing is false and dt is the interval of *)
(* that run (the default 0.01 s when it has fewer than 2 samples).        *)
C1_RunSwitchReset ==
    [][\A name \in Names :
          (Has(runs, name) /\ SelectRun(name))
              => /\ current_idx' = 0
                 /\ is_playing' = FALSE
                 /\ dt' = IntervalOf(name)]_vars

(* The part of C1 the code keeps: the cursor and dt are reset.            *)
C1_CursorAndDtReset ==
    [][\A name \in Names :
          (Has(runs, name) /\ SelectRun(name))
              => /\ current_idx' = 0
                 /\ is_playing' = is_playing
                 /\ dt' = IntervalOf(name)]_vars

(* C2: playback on an active run of length N, left alone by the operator, *)
(* halts with is_playing false and the cursor at N, and the loop, which   *)
(* keeps running, never moves the cursor again.  Either callbacks keep    *)
(* coming, or from some point on a started loop with an active run is not *)
(* playing and, if it has acted since the last callback, rests at N.      *)
C2_AutoStop ==
    \/ []<><<Callback>>_vars
    \/ <>[]((pc # "init" /\ Active)
               => (~is_playing /\ (sched # << >> => current_idx = N)))

C2_Witness ==
    /\ Active /\ N = MaxLen
    /\ last.op = "toggle"
    /\ HasStopped /\ Len(Events("incr")) = N
    /\ ~is_playing /\ current_idx = N /\ pc = "poll"

(* C3: seek(k) issued while is_playing is true leaves the cursor,         *)
(* is_playing, dt and the active run as they were, sends no pose          *)
(* directive and raises nothing.                                          *)
C3_SeekWhilePlaying ==
    [][\A k \in SeekIdx :
          (is_playing /\ Seek(k))
              => /\ UNCHANGED Playback
                 /\ last'.out = << >>
                 /\ last'.exc = "none"]_vars

C3_Witness ==
    /\ last.op = "seek" /\ sched = << >>
    /\ is_playing /\ Active /\ N >= 2 /\ current_idx = 1

(* C4: for any active run of length N and any seek index k (negative, in *)
(* range, or >= N), the cursor after seek(k) is max(0, min(k, N - 1)) and *)
(* the pose directive sent is the sample at that index.                    *)
C4_Clamping ==
    [][\A k \in SeekIdx :
          (Active /\ ~is_playing /\ Seek(k))
              => /\ current_idx' = Clamp(k, N)
                 /\ Clamp(k, N) < N
                 /\ last'.out = << Pose(Arr(trajectory)[Clamp(k, N) + 1]) >>]_vars

(* What the code keeps of C4: the cursor is clamped for every N, and the  *)
(* sample at the clamped index is sent whenever the run has one.          *)
C4_ClampingOfSamples ==
    [][\A k \in SeekIdx :
          (Active /\ ~is_playing /\ Seek(k))
              => /\ current_idx' = Clamp(k, N)
                 /\ N >= 1 => last'.out = << Pose(Arr(trajectory)[Clamp(k, N) + 1]) >>
                 /\ N = 0 => (last'.out = << >> /\ last'.exc = "IndexError")]_vars

C6_FirstRunActivated ==
    [][\A name \in Names, run \in RunData :
          (runs = << >> /\ AddRun(name, run))
              => /\ trajectory' = Some(run.traj) /\ torques' = Some(run.torques)
                 /\ errors' = Some(run.errors) /\ times' = Some(run.times)
                 /\ current_idx' = 0
                 /\ Len(run.traj) >= 1
                 /\ last'.out = << Pose(run.traj[1]),
                                   Figure("Joint Angles", name, run.times, run.traj),
                                   Figure("Joint Torques", name, run.times, run.torques),
                                   Figure("Tracking Errors", name, run.times, run.errors) >>
                 /\ plot_handles' = Tail(last'.out)]_vars

(* What the code keeps of C6: the run becomes active with cursor 0, and   *)
(* the two directives are sent whenever the run has a sample 0.           *)
C6_FirstRunActive ==
    [][\A name \in Names, run \in RunData :
          (runs = << >> /\ AddRun(name, run))
              => /\ trajectory' = Some(run.traj) /\ torques' = Some(run.torques)
                 /\ errors' = Some(run.errors) /\ times' = Some(run.times)
                 /\ current_idx' = 0
                 /\ Len(run.traj) >= 1 =>
                       /\ last'.out = << Pose(run.traj[1]),
                                         Figure("Joint Angles", name, run.times, run.traj),
                                         Figure("Joint Torques", name, run.times, run.torques),
                                         Figure("Tracking Errors", name, run.times, run.errors) >>
                       /\ plot_handles' = Tail(last'.out)
                 /\ Len(run.traj) = 0 =>
                       (last'.out = << >> /\ last'.exc = "IndexError")]_vars

(* C7: only the first add_run ever made selects a run; every later        *)
(* add_run, of a new name or of a stored one, leaves the active run, the  *)
(* cursor, dt and is_playing as they were.                                 *)
C7_ActivationOnce ==
    [][\A name \in Names, run \in RunData :
          (runs # << >> /\ AddRun(name, run)) => UNCHANGED Playback]_vars

(* What the code keeps of C7: an add_run that leaves two runs or more in  *)
(* the store selects nothing.                                              *)
C7_NoActivationBeyondOne ==
    [][\A name \in Names, run \in RunData :
          (AddRun(name, run) /\ Len(runs') >= 2) => UNCHANGED Playback]_vars

(* C8: toggle takes effect only when a run is active: in every reachable  *)
(* state is_playing implies a run is active; and with a run active,       *)
(* toggle flips is_playing and leaves the cursor alone.                    *)
C8_PlayingNeedsRun ==
    /\ [](is_playing => Active)
    /\ [][(Active /\ Toggle)
              => (is_playing' = ~is_playing /\ current_idx' = current_idx)]_vars

(* What the code keeps of C8: toggle always flips is_playing and leaves   *)
(* the cursor alone.                                                       *)
C8_ToggleFlips ==
    [][Toggle => (is_playing' = ~is_playing /\ current_idx' = current_idx)]_vars

(* C9: a run of length N played from cursor 0 with no other callback: the *)
(* loop sends samples 0, 1, ..., N - 1 in that order, each once; when it  *)
(* has stopped, the last pose sent is sample N - 1, the cursor is N and   *)
(* is_playing is false.                                                    *)
PlayedFromStart ==
    /\ last.op = "toggle" /\ Active
    /\ is_playing \/ HasStopped
    /\ current_idx = Len(Events("incr"))

C9_EmissionSequence ==
    PlayedFromStart
        => /\ Len(Poses) <= N
           /\ Poses = SubSeq(Arr(trajectory), 1, Len(Poses))
           /\ Len(Poses) - current_idx \in {0, 1}
           /\ HasStopped => /\ Poses = Arr(trajectory)
                            /\ current_idx = N
                            /\ ~is_playing

C9_Witness ==
    /\ PlayedFromStart /\ HasStopped
    /\ N = MaxLen /\ current_idx = MaxLen
    /\ Poses[N] = <<"q", MaxLen, MaxLen - 1>>

(* C10: during uninterrupted playback exactly two step-interval waits     *)
(* come between two consecutive increments of the cursor, and each wait   *)
(* lasts dt / speed for the speed current at that wait.                    *)
C10_DoubleWait ==
    /\ \A i \in 1..Len(sched) :
          sched[i].e = "wait" => (sched[i].dt = dt /\ sched[i].speed = speed)
    /\ \A i, j \in 1..Len(sched) :
          (/\ i < j
           /\ sched[i].e = "incr" /\ sched[j].e = "incr"
           /\ \A k \in (i + 1)..(j - 1) : sched[k].e # "incr")
              => Cardinality({k \in (i + 1)..(j - 1) : sched[k].e = "wait"}) = 2

C10_Witness ==
    /\ last.op = "setSpeed" /\ speed # InitSpeed
    /\ is_playing /\ Len(Events("incr")) >= 2
    /\ Len(Events("wait")) >= 4

(* C11: within each step of the loop while playing, the events come in   *)
(* the order: pose for the sample at the cursor, wait, increment, wait;   *)
(* the pose is sent before the first wait of the step.                     *)
StepOrder(order) ==
    \A i \in 1..Len(sched) :
        IF sched[i].e = "stop"
        THEN i = Len(sched) /\ (i - 1) % 4 = 0
        ELSE sched[i].e = order[((i - 1) % 4) + 1]

C11_StepOrder == StepOrder(<<"pose", "wait", "incr", "wait">>)

(* C11, amended: the order is wait, pose for the sample at the cursor,    *)
(* increment, wait: the pose is sent after the first wait of the step and *)
(* before the increment.                                                   *)
C11_WaitEmitIncrementWait ==
    /\ StepOrder(<<"wait", "pose", "incr", "wait">>)
    /\ \A i \in 1..Len(sched) :
          sched[i].e = "pose"
              => /\ Active
                 /\ sched[i].cfg
                       = Arr(trajectory)[current_idx - Len(Events("incr")) + (i - 2) \div 4 + 1]

C11_Witness ==
    /\ Len(sched) = 8 /\ is_playing /\ pc = "poll"
    /\ sched[1].e = "wait" /\ sched[2].e = "pose"

(* C12: playing from cursor N - 2 on a run of length N >= 2: after        *)
(* exactly one full step cycle the cursor is N and is_playing is false,   *)
(* and nothing advances further without a new toggle.                      *)
PlayedFrom(back) ==
    /\ last.op = "toggle" /\ Active
    /\ is_playing \/ HasStopped
    /\ N >= back
    /\ current_idx - Len(Events("incr")) = N - back

Cycles == Len(Events("incr"))

AfterCycles(n) == pc = "poll" /\ Len(sched) = 4 * n /\ Cycles = n

C12_OneCycleToStop ==
    (PlayedFrom(2) /\ AfterCycles(1))
        => (current_idx = N /\ ~is_playing)

(* C12, amended: playing from cursor N - 2 takes two full step cycles to  *)
(* bring the cursor to N (one cycle from N - 1); the pass after that sets *)
(* is_playing false, and the loop never increments a third time.           *)
C12_TwoCyclesToStop ==
    PlayedFrom(2)
        => /\ Cycles <= 2
           /\ AfterCycles(1) => (current_idx = N - 1 /\ is_playing)
           /\ AfterCycles(2) => (current_idx = N /\ is_playing)
           /\ HasStopped => (Cycles = 2 /\ current_idx = N /\ ~is_playing)

C12_Witness ==
    /\ PlayedFrom(2) /\ N = MaxLen
    /\ HasStopped /\ pc = "poll" /\ Cycles = 2 /\ current_idx = N

(* C13: restart with a run active sets the cursor to 0 and sends the pose *)
(* of sample 0, leaving is_playing, dt, speed and the active run as they  *)
(* were, playing or not; with no run active it sends nothing.              *)
C13_Restart ==
    [][Restart
          => /\ UNCHANGED <<is_playing, dt, speed, trajectory, torques, errors, times>>
             /\ Active => /\ current_idx' = 0
                          /\ N >= 1
                          /\ last'.out = << Pose(Arr(trajectory)[1]) >>
             /\ ~Active => last'.out = << >>]_vars

(* What the code keeps of C13: restart resets the cursor and changes       *)
(* nothing else; it sends sample 0 when the run has one and raises         *)
(* IndexError on a run of no samples.                                      *)
C13_RestartOfSamples ==
    [][Restart
          => /\ UNCHANGED <<is_playing, dt, speed, trajectory, torques, errors, times>>
             /\ current_idx' = 0
             /\ (Active /\ N >= 1) => (last'.out = << Pose(Arr(trajectory)[1]) >>
                                       /\ last'.exc = "none")
             /\ (Active /\ N = 0) => (last'.out = << >> /\ last'.exc = "IndexError")
             /\ ~Active => (last'.out = << >> /\ last'.exc = "none")]_vars

(* C14: switch_run(name) for a name the store does not hold raises         *)
(* nothing, leaves the active data, the cursor, dt and is_playing as they *)
(* were, and sends neither a pose nor a plot refresh.                      *)
C14_NotFound ==
    [][\A name \in Names \cup {NoRuns} :
          (~Has(runs, name) /\ (SwitchRun(name) \/ SelectRun(name)))
              => /\ UNCHANGED <<Playback, runs, plot_handles, speed, play_btn>>
                 /\ last'.out = << >>
                 /\ last'.exc = "none"]_vars

C14_Witness ==
    /\ last.op = "switch_run" /\ last.out = << >> /\ last.exc = "none"
    /\ Active /\ N >= 2 /\ current_idx >= 1 /\ is_playing

(* C15: adding or selecting a run of fewer than 2 samples (N = 0 or 1)     *)
(* never raises; dt is the default 0.01; a later seek, restart or play    *)
(* completes or is skipped without reading a sample out of range.          *)
C15_EmptySequence ==
    (Active /\ N < 2) => (last.exc = "none" /\ pc # "crashed" /\ dt = DefaultDt)

(* What the code keeps of C15: dt is the default for N < 2, a run of one  *)
(* sample never raises, and the loop reads no sample out of range; the    *)
(* callbacks raise IndexError exactly on a run of no samples.              *)
C15_SingleSample ==
    /\ (Active /\ N < 2) => (dt = DefaultDt /\ pc # "crashed")
    /\ last.exc # "none" => (last.exc = "IndexError" /\ Active /\ N = 0)

(* C16: a speed assignment with s <= 0 is rejected and the previous speed *)
(* kept, so speed > 0 in every reachable state and dt / speed is defined.  *)
C16_InvalidSpeed ==
    /\ [](speed > 0)
    /\ [][\A s \in SpeedInputs :
             SetSpeed(s) => speed' = (IF s > 0 THEN s ELSE speed)]_vars

C16_Witness ==
    /\ last.op = "setSpeed" /\ speed # InitSpeed
    /\ \E i \in 1..Len(sched) : sched[i].e = "wait" /\ sched[i].speed = speed

(* C19: the active data are the store's current entry for some run name,  *)
(* also after add_run replaces the data under the name of the active run  *)
(* while the store holds more than one run.                                *)
C19_ActiveNeverStale ==
    Active => \E name \in Names :
                  /\ Has(runs, name)
                  /\ Arr(trajectory) = Get(runs, name).traj
                  /\ Arr(torques) = Get(runs, name).torques
                  /\ Arr(errors) = Get(runs, name).errors
                  /\ Arr(times) = Get(runs, name).times

(* C17: for every interleaving of the callbacks with the steps of the     *)
(* loop, while is_playing is false the loop neither increments the cursor *)
(* nor sends a pose; a seek(k) accepted while not playing leaves the      *)
(* cursor at the clamped k until the next callback.                        *)
C17_AdvanceOnlyWhilePlaying ==
    /\ [][(~is_playing /\ Loop)
             => (current_idx' = current_idx /\ Len(Events("pose"))' = Len(Events("pose")))]_vars
    /\ []((last.op = "seek" /\ last.out # << >>)
             => (current_idx < N /\ last.out = << Pose(Arr(trajectory)[current_idx + 1]) >>))

(* C18: for every interleaving, the loop reads no sample out of range:    *)
(* when it is about to read trajectory[current_idx], the cursor is below  *)
(* the length of the active trajectory.                                    *)
C18_NoOutOfRangeRead ==
    /\ pc = "emit" => (Active /\ 0 <= current_idx /\ current_idx < N)
    /\ pc # "crashed"

(* C20: in any interleaving of toggles and auto-stops, whenever no toggle *)
(* and no auto-stop is part-way through, the label of the play button is  *)
(* "Pause" exactly when is_playing is true and "Play" exactly when false.  *)
C20_LabelMatchesPlayState ==
    (call = None /\ pc \notin {"stop", "label"})
        => /\ play_btn = "Pause" <=> is_playing
           /\ play_btn = "Play" <=> ~is_playing

=============================================================================
